---- MODULE Spec2Model ----
(***************************************************************************)
(* Balanced capacity-constrained clustering of the Hajj sites planner      *)
(* (src/app/components/HajjSitesPlanner.tsx): the clustering engine        *)
(* (runKMeans, balanceAssignments, refineSwaps, runBalancedClustering) and *)
(* the planner's handleCluster callback that resolves pasted site ids and  *)
(* splits off the reserved (VIP) group.                                    *)
(*                                                                         *)
(* JavaScript arrays are modelled as functions over 0..n-1, so indices and *)
(* group numbers are the code's.  Coordinates are fixed-point numbers with *)
(* denominator Scale: every centroid is a mean of at most MaxPoints input  *)
(* points, so with inputs that are multiples of Scale all means are exact  *)
(* integers.                                                               *)
(***************************************************************************)
EXTENDS Integers, Sequences, FiniteSets, TLC

\* ------------------------------------------------------------------ bounds
\* Largest number of points in one run (and of rows in the sites table).
MaxPoints == 3
\* Latitudes and longitudes range over 0..MaxCoord grid degrees.
MaxCoord == 2
\* Requested group counts range over -1..MaxK.
MaxK == 4
\* The engine's `iterations` argument ranges over 0..MaxIterations.
MaxIterations == 2

RECURSIVE Factorial(_)
Factorial(n) == IF n <= 1 THEN 1 ELSE n * Factorial(n - 1)

\* Denominator of the fixed-point coordinates.
Scale == Factorial(MaxPoints)

Coords == {Scale * d : d \in 0..MaxCoord}

\* ------------------------------------------------------- array primitives
Length(a) == Cardinality(DOMAIN a)

EmptyArray == [i \in {} |-> 0]

Fill(n, x) == [i \in 0..(n - 1) |-> x]

Push(a, x) == [i \in 0..Length(a) |-> IF i < Length(a) THEN a[i] ELSE x]

Concat(a, b) ==
  [i \in 0..(Length(a) + Length(b) - 1) |->
     IF i < Length(a) THEN a[i] ELSE b[i - Length(a)]]

\* An absent value (null, undefined) is the empty set, a present one a
\* singleton.
Null == {}

Some(x) == {x}

\* Arrays of length n over S.
ArraysOf(S, n) == [0..(n - 1) -> S]

Abs(x) == IF x < 0 THEN -x ELSE x

Min(a, b) == IF a < b THEN a ELSE b

Max(a, b) == IF a < b THEN b ELSE a

RECURSIVE SumOver(_, _)
SumOver(f, S) ==
  IF S = {} THEN 0
  ELSE LET i == CHOOSE x \in S : TRUE IN f[i] + SumOver(f, S \ {i})

\* --------------------------------------------------------------- distance
\* All points of a run lie on one great circle through the grid: either a
\* common meridian (equal lng) or the equator (lat = 0).  Centroids are
\* coordinate-wise means, so they stay on it.
OnGreatCircle(points) ==
  \/ \A i, j \in DOMAIN points : points[i].lng = points[j].lng
  \/ \A i \in DOMAIN points : points[i].lat = 0

\* haversineKm: on a common meridian dLng = 0, so h = sin^2(dLat/2) and the
\* result is R * |dLat|; on the equator cos(lat1) = cos(lat2) = 1 and
\* dLat = 0, so the result is R * |dLng|.  The unit is R*pi/(180*Scale) km.
haversineKm(a, b) ==
  IF a.lng = b.lng THEN Abs(b.lat - a.lat) ELSE Abs(b.lng - a.lng)

\* Number.POSITIVE_INFINITY: larger than every distance on the grid.
Infinity == Scale * (MaxCoord + 1)

latLng(p) == [lat |-> p.lat, lng |-> p.lng]

\* -------------------------------------------------------------- Phase A
\* The outcomes of the sampling loop of initializeCentroids: the distinct
\* indices it accepted, in the order drawn (a repeated draw is skipped by
\* `continue` and leaves no trace).
Samples(n, k) ==
  {s \in ArraysOf(0..(n - 1), Max(0, Min(k, n))) :
     \A i, j \in DOMAIN s : i # j => s[i] # s[j]}

initializeCentroids(points, k, sample) ==
  [c \in DOMAIN sample |-> latLng(points[sample[c]])]

RECURSIVE nearestLoop(_, _, _, _, _)
nearestLoop(point, centroids, c, bestIndex, bestDistance) ==
  IF c >= Length(centroids) THEN bestIndex
  ELSE LET distance == haversineKm(point, centroids[c]) IN
       IF distance < bestDistance
         THEN nearestLoop(point, centroids, c + 1, c, distance)
         ELSE nearestLoop(point, centroids, c + 1, bestIndex, bestDistance)

members(assignments, c) == {i \in DOMAIN assignments : assignments[i] = c}

meanOf(points, S) ==
  [lat |-> SumOver([i \in DOMAIN points |-> points[i].lat], S) \div Cardinality(S),
   lng |-> SumOver([i \in DOMAIN points |-> points[i].lng], S) \div Cardinality(S)]

\* The centroid of an empty group taken from the first point, whatever
\* the group.
kmeansCentroidsFirstPoint(points, assignments, k) ==
  [c \in 0..(k - 1) |->
     IF members(assignments, c) # {}
       THEN meanOf(points, members(assignments, c))
       ELSE latLng(points[0])]

\* Lines 296-322: the centroid update inside runKMeans.
kmeansCentroids(points, assignments, k) ==
  [c \in 0..(k - 1) |->
     IF members(assignments, c) # {}
       THEN meanOf(points, members(assignments, c))
       ELSE latLng(points[c % Length(points)])]

\* Lines 277-294: every point to its nearest centroid.
nearestAssignments(points, centroids) ==
  [i \in DOMAIN points |-> nearestLoop(points[i], centroids, 0, 0, Infinity)]

RECURSIVE kmeansLoop(_, _, _, _, _, _)
kmeansLoop(points, k, centroids, assignments, iteration, maxIterations) ==
  IF iteration >= maxIterations
    THEN [assignments |-> assignments, centroids |-> centroids]
    ELSE LET next == nearestAssignments(points, centroids)
             changed == next # assignments
             moved == kmeansCentroids(points, next, k)
         IN IF ~changed
              THEN [assignments |-> next, centroids |-> moved]
              ELSE kmeansLoop(points, k, moved, next, iteration + 1, maxIterations)

runKMeans(points, k, maxIterations, sample) ==
  IF Length(points) = 0
    THEN [assignments |-> EmptyArray, centroids |-> EmptyArray]
  ELSE IF k <= 1
    THEN [assignments |-> Fill(Length(points), 0),
          centroids |-> Fill(1, latLng(points[0]))]
  ELSE kmeansLoop(points, k, initializeCentroids(points, k, sample),
                  Fill(Length(points), 0), 0, maxIterations)

\* ---------------------------------------------------------- capacities
\* The even split with the remainder forgotten.
buildCapacitiesNoRemainder(total, k) ==
  [index \in 0..(k - 1) |-> total \div k]

\* The remainder handed to the highest-indexed groups.
buildCapacitiesRemainderLast(total, k) ==
  [index \in 0..(k - 1) |->
     (total \div k) + (IF index >= k - (total % k) THEN 1 ELSE 0)]

buildCapacities(total, k) ==
  [index \in 0..(k - 1) |->
     (total \div k) + (IF index < total % k THEN 1 ELSE 0)]

\* `assignments[i] ?? 0`.
assignmentOr0(assignments, i) ==
  IF i \in DOMAIN assignments THEN assignments[i] ELSE 0

recomputeCentroids(points, assignments, k, fallback) ==
  LET cluster == [i \in DOMAIN points |-> assignmentOr0(assignments, i)] IN
  [index \in 0..(k - 1) |->
     IF members(cluster, index) # {}
       THEN meanOf(points, members(cluster, index))
     ELSE IF index \in DOMAIN fallback THEN fallback[index]
     ELSE latLng(points[0])]

\* -------------------------------------------------------------- Phase B
\* The sort left out: the groups stay in index order.
sortedPrefsUnsorted(point, centroids) ==
  [r \in 0..(Length(centroids) - 1) |-> r]

\* prefs.sort((a, b) => a.distance - b.distance): the sort is stable, so
\* groups at equal distance keep their index order.
sortedPrefs(point, centroids) ==
  LET k == Length(centroids)
      d(c) == haversineKm(point, centroids[c])
      rank(c) == Cardinality({e \in 0..(k - 1) :
                    d(e) < d(c) \/ (d(e) = d(c) /\ e < c)})
  IN [r \in 0..(k - 1) |-> CHOOSE c \in 0..(k - 1) : rank(c) = r]

\* The admission test written <= : every group admits one point more
\* than its capacity.
RECURSIVE admitLoopOffByOne(_, _, _, _, _)
admitLoopOffByOne(current, capacities, i, currentCounts, overflow) ==
  IF i >= Length(current)
    THEN [currentCounts |-> currentCounts, overflow |-> overflow]
  ELSE IF /\ current[i] \in DOMAIN currentCounts
          /\ current[i] \in DOMAIN capacities
          /\ currentCounts[current[i]] <= capacities[current[i]]
    THEN admitLoopOffByOne(current, capacities, i + 1,
                           [currentCounts EXCEPT ![current[i]] = @ + 1], overflow)
  ELSE admitLoopOffByOne(current, capacities, i + 1, currentCounts,
                         Push(overflow, i))

\* The admission pass run from the last point to the first.
RECURSIVE admitLoopFromEnd(_, _, _, _, _)
admitLoopFromEnd(current, capacities, i, currentCounts, overflow) ==
  IF i >= Length(current)
    THEN [currentCounts |-> currentCounts, overflow |-> overflow]
  ELSE LET p == Length(current) - 1 - i IN
       IF /\ current[p] \in DOMAIN currentCounts
          /\ current[p] \in DOMAIN capacities
          /\ currentCounts[current[p]] < capacities[current[p]]
         THEN admitLoopFromEnd(current, capacities, i + 1,
                               [currentCounts EXCEPT ![current[p]] = @ + 1],
                               overflow)
         ELSE admitLoopFromEnd(current, capacities, i + 1, currentCounts,
                               Push(overflow, p))

\* Lines 392-398: the admission pass over pointPrefs.
RECURSIVE admitLoop(_, _, _, _, _)
admitLoop(current, capacities, i, currentCounts, overflow) ==
  IF i >= Length(current)
    THEN [currentCounts |-> currentCounts, overflow |-> overflow]
  ELSE IF /\ current[i] \in DOMAIN currentCounts
          /\ current[i] \in DOMAIN capacities
          /\ currentCounts[current[i]] < capacities[current[i]]
    THEN admitLoop(current, capacities, i + 1,
                   [currentCounts EXCEPT ![current[i]] = @ + 1], overflow)
  ELSE admitLoop(current, capacities, i + 1, currentCounts, Push(overflow, i))

\* The capacity test left out: the nearest group is taken.
firstFreeIgnoreCapacity(prefs, currentCounts, capacities, r) ==
  IF r >= Length(prefs) THEN -1 ELSE prefs[r]

\* Lines 402-408: the first preferred group still under capacity, or -1.
RECURSIVE firstFree(_, _, _, _)
firstFree(prefs, currentCounts, capacities, r) ==
  IF r >= Length(prefs) THEN -1
  ELSE IF currentCounts[prefs[r]] >= capacities[prefs[r]]
    THEN firstFree(prefs, currentCounts, capacities, r + 1)
  ELSE prefs[r]

\* Lines 400-413: the pass over the overflow points.
RECURSIVE overflowLoop(_, _, _, _, _, _, _, _)
overflowLoop(points, centroids, current, capacities, overflow, o, currentCounts, finalAssign) ==
  IF o >= Length(overflow) THEN finalAssign
  ELSE LET index == overflow[o]
           pick == firstFree(sortedPrefs(points[index], centroids),
                             currentCounts, capacities, 0)
       IN IF pick >= 0
            THEN overflowLoop(points, centroids, current, capacities, overflow,
                              o + 1, [currentCounts EXCEPT ![pick] = @ + 1],
                              [finalAssign EXCEPT ![index] = pick])
            ELSE overflowLoop(points, centroids, current, capacities, overflow,
                              o + 1,
                              IF current[index] \in DOMAIN currentCounts
                                THEN [currentCounts EXCEPT ![current[index]] = @ + 1]
                                ELSE currentCounts,
                              [finalAssign EXCEPT ![index] = current[index]])

\* Balancing left out: the incoming assignment is returned as it is.
balanceAssignmentsSkipped(points, centroids, baseAssignments, capacities) ==
  [i \in DOMAIN points |-> assignmentOr0(baseAssignments, i)]

balanceAssignments(points, centroids, baseAssignments, capacities) ==
  IF Length(points) = 0 THEN EmptyArray
  ELSE LET k == Length(centroids)
           current == [i \in DOMAIN points |-> assignmentOr0(baseAssignments, i)]
           admitted == admitLoop(current, capacities, 0, Fill(k, 0), EmptyArray)
       IN overflowLoop(points, centroids, current, capacities,
                       admitted.overflow, 0, admitted.currentCounts, current)

\* -------------------------------------------------------------- Phase C
\* The scan limit of refineSwaps.
MaxSwapScans == 50

\* The swap with its second write forgotten.
swapGroupsOneSided(newAssign, i, j) ==
  [newAssign EXCEPT ![i] = newAssign[j]]

\* Lines 451-452.
swapGroups(newAssign, i, j) ==
  [newAssign EXCEPT ![i] = newAssign[j], ![j] = newAssign[i]]

\* The swap test written <= : a swap that leaves the cost as it is, is
\* made too.
RECURSIVE scanPairsSwapOnTie(_, _, _, _, _, _)
scanPairsSwapOnTie(points, centroids, newAssign, i, j, improved) ==
  IF i >= Length(points)
    THEN [assignments |-> newAssign, improved |-> improved]
  ELSE IF j >= Length(points)
    THEN scanPairsSwapOnTie(points, centroids, newAssign, i + 1, i + 2, improved)
  ELSE LET u == newAssign[i]
           v == newAssign[j]
       IN IF u = v \/ u \notin DOMAIN centroids \/ v \notin DOMAIN centroids
            THEN scanPairsSwapOnTie(points, centroids, newAssign, i, j + 1, improved)
            ELSE LET currCost == haversineKm(points[i], centroids[u])
                                 + haversineKm(points[j], centroids[v])
                     swapCost == haversineKm(points[i], centroids[v])
                                 + haversineKm(points[j], centroids[u])
                 IN IF swapCost <= currCost
                      THEN scanPairsSwapOnTie(points, centroids,
                                              swapGroups(newAssign, i, j),
                                              i, j + 1, TRUE)
                      ELSE scanPairsSwapOnTie(points, centroids, newAssign,
                                              i, j + 1, improved)

\* Lines 432-456: one scan over the pairs i < j, from pair (i, j) on.
RECURSIVE scanPairs(_, _, _, _, _, _)
scanPairs(points, centroids, newAssign, i, j, improved) ==
  IF i >= Length(points)
    THEN [assignments |-> newAssign, improved |-> improved]
  ELSE IF j >= Length(points)
    THEN scanPairs(points, centroids, newAssign, i + 1, i + 2, improved)
  ELSE LET u == newAssign[i]
           v == newAssign[j]
       IN IF u = v \/ u \notin DOMAIN centroids \/ v \notin DOMAIN centroids
            THEN scanPairs(points, centroids, newAssign, i, j + 1, improved)
            ELSE LET currCost == haversineKm(points[i], centroids[u])
                                 + haversineKm(points[j], centroids[v])
                     swapCost == haversineKm(points[i], centroids[v])
                                 + haversineKm(points[j], centroids[u])
                 IN IF swapCost < currCost
                      THEN scanPairs(points, centroids, swapGroups(newAssign, i, j),
                                     i, j + 1, TRUE)
                      ELSE scanPairs(points, centroids, newAssign, i, j + 1, improved)

\* Lines 432-456 once more, keeping the assignment after every swap of
\* the scan.
RECURSIVE scanSwaps(_, _, _, _, _, _)
scanSwaps(points, centroids, newAssign, i, j, swaps) ==
  IF i >= Length(points) THEN swaps
  ELSE IF j >= Length(points)
    THEN scanSwaps(points, centroids, newAssign, i + 1, i + 2, swaps)
  ELSE LET u == newAssign[i]
           v == newAssign[j]
       IN IF u = v \/ u \notin DOMAIN centroids \/ v \notin DOMAIN centroids
            THEN scanSwaps(points, centroids, newAssign, i, j + 1, swaps)
            ELSE LET currCost == haversineKm(points[i], centroids[u])
                                 + haversineKm(points[j], centroids[v])
                     swapCost == haversineKm(points[i], centroids[v])
                                 + haversineKm(points[j], centroids[u])
                     swapped == swapGroups(newAssign, i, j)
                 IN IF swapCost < currCost
                      THEN scanSwaps(points, centroids, swapped, i, j + 1,
                                     Push(swaps, swapped))
                      ELSE scanSwaps(points, centroids, newAssign, i, j + 1, swaps)

\* Lines 429-457: the assignments refineSwaps goes through, the incoming
\* one first, then one after every swap.
RECURSIVE swapsLoop(_, _, _, _, _)
swapsLoop(points, centroids, improved, iter, swaps) ==
  IF improved /\ iter < MaxSwapScans
    THEN LET newAssign == swaps[Length(swaps) - 1]
             scan == scanSwaps(points, centroids, newAssign, 0, 1, swaps)
         IN swapsLoop(points, centroids, Length(scan) > Length(swaps),
                      iter + 1, scan)
    ELSE swaps

\* A single scan instead of the loop.
refineLoopOnce(points, centroids, newAssign, improved, iter) ==
  LET scan == scanPairs(points, centroids, newAssign, 0, 1, FALSE)
  IN [assignments |-> scan.assignments, improved |-> scan.improved,
      iter |-> iter + 1]

RECURSIVE refineLoop(_, _, _, _, _)
refineLoop(points, centroids, newAssign, improved, iter) ==
  IF improved /\ iter < MaxSwapScans
    THEN LET scan == scanPairs(points, centroids, newAssign, 0, 1, FALSE)
         IN refineLoop(points, centroids, scan.assignments, scan.improved, iter + 1)
    ELSE [assignments |-> newAssign, improved |-> improved, iter |-> iter]

refineSwaps(points, assignments, centroids) ==
  IF Length(points) = 0 THEN EmptyArray
  ELSE refineLoop(points, centroids, assignments, TRUE, 0).assignments

\* ------------------------------------------------------------ the engine
\* maxIterations passed to runKMeans by runBalancedClustering.
KMeansRounds == 10

\* Lines 482-487: one pass of the outer loop.
outerPass(points, k, capacities, state) ==
  LET balanced == balanceAssignments(points, state.centroids,
                                     state.assignments, capacities)
      recentred == recomputeCentroids(points, balanced, k, state.centroids)
      refined == refineSwaps(points, balanced, recentred)
  IN [assignments |-> refined,
      centroids |-> recomputeCentroids(points, refined, k, recentred)]

RECURSIVE outerLoop(_, _, _, _, _, _)
outerLoop(points, k, capacities, state, iteration, iterations) ==
  IF iteration >= Max(1, iterations) THEN state
  ELSE outerLoop(points, k, capacities, outerPass(points, k, capacities, state),
                 iteration + 1, iterations)

\* The single group filled with k instead of 0.
earlyResultFillK(points, k) ==
  IF Length(points) = 0
    THEN Some([assignments |-> EmptyArray, centroids |-> EmptyArray])
  ELSE IF k <= 1
    THEN Some([assignments |-> Fill(Length(points), k),
               centroids |-> Fill(1, meanOf(points, DOMAIN points))])
  ELSE Null

\* The single centroid taken from the first point, as runKMeans does,
\* instead of the mean.
earlyResultFirstPoint(points, k) ==
  IF Length(points) = 0
    THEN Some([assignments |-> EmptyArray, centroids |-> EmptyArray])
  ELSE IF k <= 1
    THEN Some([assignments |-> Fill(Length(points), 0),
               centroids |-> Fill(1, latLng(points[0]))])
  ELSE Null

\* The test for an empty list left out: the single-group branch runs on
\* no points and divides 0 by 0 (NaN, written 0 here).
earlyResultNoEmptyTest(points, k) ==
  IF Length(points) = 0
    THEN Some([assignments |-> EmptyArray,
               centroids |-> Fill(1, [lat |-> 0, lng |-> 0])])
  ELSE IF k <= 1
    THEN Some([assignments |-> Fill(Length(points), 0),
               centroids |-> Fill(1, meanOf(points, DOMAIN points))])
  ELSE Null

\* Lines 467-475: the result returned before any clustering, or Null.
earlyResult(points, k) ==
  IF Length(points) = 0
    THEN Some([assignments |-> EmptyArray, centroids |-> EmptyArray])
  ELSE IF k <= 1
    THEN Some([assignments |-> Fill(Length(points), 0),
               centroids |-> Fill(1, meanOf(points, DOMAIN points))])
  ELSE Null

runBalancedClustering(points, k, iterations, sample) ==
  IF earlyResult(points, k) # Null
    THEN CHOOSE r \in earlyResult(points, k) : TRUE
  ELSE outerLoop(points, k, buildCapacities(Length(points), k),
                 runKMeans(points, k, KMeansRounds, sample), 0, iterations)

\* ------------------------------------------------- site id resolution
\* Texts (pasted input, site ids) are sequences of one-character strings.
Whitespace == {" "}

Separators == Whitespace \cup {",", ";"}

Digits == {"0", "1", "2", "3", "4", "5", "6", "7", "8", "9"}

RECURSIVE trimStart(_)
trimStart(s) ==
  IF s # <<>> /\ Head(s) \in Whitespace THEN trimStart(Tail(s)) ELSE s

RECURSIVE trimEnd(_)
trimEnd(s) ==
  IF s # <<>> /\ s[Len(s)] \in Whitespace
    THEN trimEnd(SubSeq(s, 1, Len(s) - 1)) ELSE s

trim(s) == trimEnd(trimStart(s))

\* The prefix matched in upper case only (/^W(\d+)$/).
normalizeSiteIdUpperOnly(value) ==
  LET raw == trim(value) IN
  IF raw = <<>> THEN Null
  ELSE IF /\ Len(raw) >= 2
          /\ raw[1] = "W"
          /\ \A i \in 2..Len(raw) : raw[i] \in Digits
    THEN Some(Tail(raw))
  ELSE Some(raw)

\* The prefix stripped whatever follows it (/^[Ww](.+)$/).
normalizeSiteIdAnyRest(value) ==
  LET raw == trim(value) IN
  IF raw = <<>> THEN Null
  ELSE IF Len(raw) >= 2 /\ raw[1] \in {"W", "w"}
    THEN Some(Tail(raw))
  ELSE Some(raw)

\* A null value reads as the empty text (`String(value ?? "")`).
normalizeSiteId(value) ==
  LET raw == trim(value) IN
  IF raw = <<>> THEN Null
  ELSE IF /\ Len(raw) >= 2
          /\ raw[1] \in {"W", "w"}
          /\ \A i \in 2..Len(raw) : raw[i] \in Digits
    THEN Some(Tail(raw))
  ELSE Some(raw)

\* split(/[\s,;]+/), trim, filter(Boolean): the maximal separator-free runs.
RECURSIVE splitLoop(_, _, _, _)
splitLoop(input, i, token, tokens) ==
  IF i > Len(input)
    THEN IF trim(token) # <<>> THEN Push(tokens, trim(token)) ELSE tokens
  ELSE IF input[i] \in Separators
    THEN splitLoop(input, i + 1, <<>>,
                   IF trim(token) # <<>> THEN Push(tokens, trim(token)) ELSE tokens)
  ELSE splitLoop(input, i + 1, Append(token, input[i]), tokens)

\* filter(Boolean) left out: split keeps an empty text before a leading
\* and after a trailing separator.
tokenizeSiteIdsKeepEmpty(input) ==
  Concat(IF input # <<>> /\ Head(input) \in Separators
           THEN Fill(1, <<>>) ELSE EmptyArray,
         Concat(splitLoop(input, 1, <<>>, EmptyArray),
                IF input # <<>> /\ input[Len(input)] \in Separators
                  THEN Fill(1, <<>>) ELSE EmptyArray))

tokenizeSiteIds(input) == splitLoop(input, 1, <<>>, EmptyArray)

\* The elements of array a at the indices in keep, in array order.
SubArray(a, keep) ==
  [r \in 0..(Cardinality(keep) - 1) |->
     a[CHOOSE i \in keep : Cardinality({j \in keep : j < i}) = r]]

Range(a) == {a[i] : i \in DOMAIN a}

\* `row["Site ID"] != null ? String(row["Site ID"]).trim() : ""`.
siteIdOf(row) == trim(row.siteId)

\* The rows filed under their trimmed id only.
siteIndexRawOnly(sites, key) ==
  SubArray(sites, {i \in DOMAIN sites :
                     siteIdOf(sites[i]) # <<>> /\ key = siteIdOf(sites[i])})

\* siteIndex.get(key): the rows filed under key, in table order; a row is
\* filed under its trimmed id and under its normalized id.
siteIndex(sites, key) ==
  SubArray(sites, {i \in DOMAIN sites :
                     /\ siteIdOf(sites[i]) # <<>>
                     /\ key \in Some(siteIdOf(sites[i]))
                                \cup normalizeSiteId(siteIdOf(sites[i]))})

\* A cell holds a finite number (t = "number") or something that is not
\* one: null, NaN, an unparsable string (t = "none").
parseCoordinate(value) == IF value.t = "number" THEN Some(value.v) ELSE Null

\* The test `seen.has(normalized)` left out.
RECURSIVE uniqueLoopNoSeen(_, _, _)
uniqueLoopNoSeen(tokens, t, uniqueIds) ==
  IF t >= Length(tokens) THEN uniqueIds
  ELSE LET normalized == normalizeSiteId(tokens[t]) IN
       IF normalized = Null
         THEN uniqueLoopNoSeen(tokens, t + 1, uniqueIds)
         ELSE uniqueLoopNoSeen(tokens, t + 1,
                               Push(uniqueIds, CHOOSE n \in normalized : TRUE))

\* Lines 968-976.
RECURSIVE uniqueLoop(_, _, _)
uniqueLoop(tokens, t, uniqueIds) ==
  IF t >= Length(tokens) THEN uniqueIds
  ELSE LET normalized == normalizeSiteId(tokens[t]) IN
       IF normalized = Null \/ normalized \subseteq Range(uniqueIds)
         THEN uniqueLoop(tokens, t + 1, uniqueIds)
         ELSE uniqueLoop(tokens, t + 1,
                         Push(uniqueIds, CHOOSE n \in normalized : TRUE))

\* The test for an id already emitted left out.
RECURSIVE candidateLoopNoDedup(_, _, _, _)
candidateLoopNoDedup(id, candidates, c, acc) ==
  IF c >= Length(candidates) THEN acc
  ELSE LET row == candidates[c]
           siteIdRaw == siteIdOf(row)
           lat == parseCoordinate(row.lat)
           lng == parseCoordinate(row.lng)
       IN IF siteIdRaw = <<>>
            THEN candidateLoopNoDedup(id, candidates, c + 1, acc)
          ELSE IF lat = Null \/ lng = Null
            THEN candidateLoopNoDedup(id, candidates, c + 1,
                   [acc EXCEPT !.missingCoordsIds = Push(@, siteIdRaw)])
          ELSE candidateLoopNoDedup(id, candidates, c + 1,
                 [acc EXCEPT
                    !.matchedSiteIds = @ \cup {siteIdRaw},
                    !.matched = Push(@, [siteId |-> siteIdRaw,
                                         lat |-> CHOOSE v \in lat : TRUE,
                                         lng |-> CHOOSE v \in lng : TRUE,
                                         row |-> row])])

\* The coordinates tested before the test for an id already emitted.
RECURSIVE candidateLoopCoordsFirst(_, _, _, _)
candidateLoopCoordsFirst(id, candidates, c, acc) ==
  IF c >= Length(candidates) THEN acc
  ELSE LET row == candidates[c]
           siteIdRaw == siteIdOf(row)
           lat == parseCoordinate(row.lat)
           lng == parseCoordinate(row.lng)
       IN IF siteIdRaw = <<>>
            THEN candidateLoopCoordsFirst(id, candidates, c + 1, acc)
          ELSE IF lat = Null \/ lng = Null
            THEN candidateLoopCoordsFirst(id, candidates, c + 1,
                   [acc EXCEPT !.missingCoordsIds = Push(@, siteIdRaw)])
          ELSE IF siteIdRaw \in acc.matchedSiteIds
            THEN candidateLoopCoordsFirst(id, candidates, c + 1, acc)
          ELSE candidateLoopCoordsFirst(id, candidates, c + 1,
                 [acc EXCEPT
                    !.matchedSiteIds = @ \cup {siteIdRaw},
                    !.matched = Push(@, [siteId |-> siteIdRaw,
                                         lat |-> CHOOSE v \in lat : TRUE,
                                         lng |-> CHOOSE v \in lng : TRUE,
                                         row |-> row])])

\* Lines 995-1009: the rows found for one id.
RECURSIVE candidateLoop(_, _, _, _)
candidateLoop(id, candidates, c, acc) ==
  IF c >= Length(candidates) THEN acc
  ELSE LET row == candidates[c]
           siteIdRaw == siteIdOf(row)
           lat == parseCoordinate(row.lat)
           lng == parseCoordinate(row.lng)
       IN IF siteIdRaw = <<>> \/ siteIdRaw \in acc.matchedSiteIds
            THEN candidateLoop(id, candidates, c + 1, acc)
          ELSE IF lat = Null \/ lng = Null
            THEN candidateLoop(id, candidates, c + 1,
                   [acc EXCEPT !.missingCoordsIds = Push(@, siteIdRaw)])
          ELSE candidateLoop(id, candidates, c + 1,
                 [acc EXCEPT
                    !.matchedSiteIds = @ \cup {siteIdRaw},
                    !.matched = Push(@, [siteId |-> siteIdRaw,
                                         lat |-> CHOOSE v \in lat : TRUE,
                                         lng |-> CHOOSE v \in lng : TRUE,
                                         row |-> row])])

\* An id that is not found put in front of the not-found list instead of
\* at its end.
RECURSIVE resolveLoopPrepend(_, _, _, _)
resolveLoopPrepend(sites, uniqueIds, u, acc) ==
  IF u >= Length(uniqueIds) THEN acc
  ELSE LET candidates == siteIndex(sites, uniqueIds[u]) IN
       IF Length(candidates) = 0
         THEN resolveLoopPrepend(sites, uniqueIds, u + 1,
                [acc EXCEPT !.notFoundIds = Concat(Fill(1, uniqueIds[u]), @)])
         ELSE resolveLoopPrepend(sites, uniqueIds, u + 1,
                candidateLoop(uniqueIds[u], candidates, 0, acc))

\* Lines 983-1010.
RECURSIVE resolveLoop(_, _, _, _)
resolveLoop(sites, uniqueIds, u, acc) ==
  IF u >= Length(uniqueIds) THEN acc
  ELSE LET candidates == siteIndex(sites, uniqueIds[u]) IN
       IF Length(candidates) = 0
         THEN resolveLoop(sites, uniqueIds, u + 1,
                          [acc EXCEPT !.notFoundIds = Push(@, uniqueIds[u])])
         ELSE resolveLoop(sites, uniqueIds, u + 1,
                          candidateLoop(uniqueIds[u], candidates, 0, acc))

resolveSites(sites, uniqueIds) ==
  resolveLoop(sites, uniqueIds, 0,
              [matched |-> EmptyArray, notFoundIds |-> EmptyArray,
               missingCoordsIds |-> EmptyArray, matchedSiteIds |-> {}])

\* ------------------------------------------------------- reserved group
HIGHLIGHT_LOCATION_CATEGORIES ==
  {"jamarat", "train station", "long ladder", "critical-hub", "palace",
   "mina tower", "kidana building", "hospital", "ministry", "crane",
   "military camp", "laal company"}

\* String(value).trim().toLowerCase() on the category texts of the model.
trimLowerCase(value) ==
  CASE value = " Hospital" -> "hospital"
    [] value = "Crane" -> "crane"
    [] value = "Street " -> "street"
    [] OTHER -> value

isHighlightedLocationCategory(value) ==
  IF value = Null THEN FALSE
  ELSE trimLowerCase(CHOOSE v \in value : TRUE) \in HIGHLIGHT_LOCATION_CATEGORIES

\* Lines 1012-1013; clusterK is the number twice/2, or not finite.
\* Math.max(1, ...) left out.
desiredKOfNoFloorOfOne(clusterK) ==
  IF clusterK.finite THEN clusterK.twice \div 2 ELSE 1

desiredKOf(clusterK) ==
  IF clusterK.finite THEN Max(1, clusterK.twice \div 2) ELSE 1

usedKOf(clusterK, matched) ==
  IF Length(matched) > 0 THEN Min(desiredKOf(clusterK), Length(matched)) ELSE 0

\* Lines 1034-1040.
vipSitesOf(matched) ==
  SubArray(matched, {i \in DOMAIN matched :
                       isHighlightedLocationCategory(matched[i].row.category)})

normalSitesOf(matched) ==
  SubArray(matched, {i \in DOMAIN matched :
                       ~isHighlightedLocationCategory(matched[i].row.category)})

\* The `iterations` argument handleCluster passes to the engine.
Iterations == 2

allInGroup0(points) ==
  [clustered |-> [i \in DOMAIN points |-> [point |-> points[i], clusterIndex |-> 0]],
   centroids |-> Fill(1, meanOf(points, DOMAIN points)),
   assignments |-> Fill(Length(points), 0)]

\* The merge with the offset of the other groups forgotten.
mergeReservedNoOffset(vipSites, normalSites, normalResult) ==
  [clustered |->
     Concat([i \in DOMAIN vipSites |-> [point |-> vipSites[i], clusterIndex |-> 0]],
            [i \in DOMAIN normalSites |->
               [point |-> normalSites[i],
                clusterIndex |-> assignmentOr0(normalResult.assignments, i)]]),
   centroids |->
     Concat(Fill(1, meanOf(vipSites, DOMAIN vipSites)), normalResult.centroids),
   assignments |->
     Concat(Fill(Length(vipSites), 0), normalResult.assignments)]

\* Lines 1081-1105: the reserved group first, the other groups shifted by 1.
mergeReserved(vipSites, normalSites, normalResult) ==
  [clustered |->
     Concat([i \in DOMAIN vipSites |-> [point |-> vipSites[i], clusterIndex |-> 0]],
            [i \in DOMAIN normalSites |->
               [point |-> normalSites[i],
                clusterIndex |-> assignmentOr0(normalResult.assignments, i) + 1]]),
   centroids |->
     Concat(Fill(1, meanOf(vipSites, DOMAIN vipSites)), normalResult.centroids),
   assignments |->
     Concat(Fill(Length(vipSites), 0),
            [i \in DOMAIN normalResult.assignments |->
               normalResult.assignments[i] + 1])]

\* Lines 1109-1115.
plainResult(matched, resolvedResult) ==
  [clustered |-> [i \in DOMAIN matched |->
                    [point |-> matched[i],
                     clusterIndex |-> assignmentOr0(resolvedResult.assignments, i)]],
   centroids |-> resolvedResult.centroids,
   assignments |-> resolvedResult.assignments]

\* The points and the group count of the one engine call of a cluster run
\* (none when the run takes a branch that does not call the engine).
engineCall(matched, usedK) ==
  LET vipSites == vipSitesOf(matched)
      normalSites == normalSitesOf(matched)
  IN IF Length(vipSites) > 0 /\ usedK > 1
       THEN IF Length(normalSites) = 0 \/ usedK - 1 = 0
              THEN [points |-> EmptyArray, k |-> 0]
              ELSE [points |-> normalSites, k |-> usedK - 1]
       ELSE [points |-> matched, k |-> usedK]

\* The samples initializeCentroids can draw in an engine call.
EngineSamples(points, k) ==
  IF Length(points) = 0 \/ k <= 1 THEN {EmptyArray} ELSE Samples(Length(points), k)

\* The reserved group split off whenever a reserved point exists, also
\* when a single group is used.
clusterMatchedAlwaysSplit(matched, usedK, sample) ==
  LET vipSites == vipSitesOf(matched)
      normalSites == normalSitesOf(matched)
  IN IF Length(vipSites) > 0
       THEN IF Length(normalSites) = 0 THEN allInGroup0(vipSites)
            ELSE mergeReserved(vipSites, normalSites,
                   runBalancedClustering(normalSites, usedK - 1, Iterations, sample))
       ELSE plainResult(matched,
              runBalancedClustering(matched, usedK, Iterations, sample))

\* Lines 1030-1116.
clusterMatched(matched, usedK, sample) ==
  LET vipSites == vipSitesOf(matched)
      normalSites == normalSitesOf(matched)
      normalK == usedK - 1
  IN IF Length(vipSites) > 0 /\ usedK > 1
       THEN IF Length(normalSites) = 0 THEN allInGroup0(vipSites)
            ELSE IF normalK = 0 THEN allInGroup0(matched)
            ELSE mergeReserved(vipSites, normalSites,
                   runBalancedClustering(normalSites, normalK, Iterations, sample))
       ELSE plainResult(matched,
              runBalancedClustering(matched, usedK, Iterations, sample))

\* Line 1120.
allPointsOf(matched, usedK) ==
  IF Length(vipSitesOf(matched)) > 0 /\ usedK > 1
    THEN Concat(vipSitesOf(matched), normalSitesOf(matched))
    ELSE matched

\* Lines 1118-1127: later entries overwrite earlier ones.
indexBySiteIdOf(allPoints) ==
  LET keysAt(i) == Some(allPoints[i].siteId) \cup normalizeSiteId(allPoints[i].siteId)
      keys == UNION {keysAt(i) : i \in DOMAIN allPoints}
  IN [key \in keys |->
        CHOOSE i \in DOMAIN allPoints :
          key \in keysAt(i) /\ \A j \in DOMAIN allPoints : key \in keysAt(j) => j <= i]

\* ================================================================== state
VARIABLES
  \* the planner component (HajjSitesPlanner)
  sites,            \* the loaded sites table
  clusterInput,     \* the pasted text
  clusterK,         \* the requested number of groups
  clusterError,     \* Null or the message shown
  clusterStats,     \* Null or the resolution report
  clusteredSites,   \* the (point, clusterIndex) pairs on the map
  clusterKUsed,     \* Null or the number of groups used
  hasVipGroup,
  clusterDebugRef,  \* Null or (points, centroids, assignments, indexBySiteId)
  drawn,            \* the sample Math.random gave the last cluster run
  normalized,       \* what normalizeSiteId returned when applied on its own
  \* one call of runBalancedClustering
  points, k, iterations,   \* its arguments
  pc, sample, centroids, assignments, capacities, iteration,
  entry             \* the assignment the phase last run was given

plannerVars ==
  <<sites, clusterInput, clusterK, clusterError, clusterStats, clusteredSites,
    clusterKUsed, hasVipGroup, clusterDebugRef, drawn, normalized>>

engineVars ==
  <<points, k, iterations, pc, sample, centroids, assignments, capacities,
    iteration, entry>>

vars == <<plannerVars, engineVars>>

\* ----------------------------------------------------------- input sets
GridPoints == [lat : Coords, lng : {0, Scale}]

PointLists == UNION {ArraysOf(GridPoints, n) : n \in 0..MaxPoints}

idDigits == <<"1", "2", "3", "4", "5", "6", "7", "8", "9">>

\* Row i of the table is stored with the W prefix when i is even and
\* without it when i is odd; the pasted token is the other form.
rowSiteId(i) == IF i % 2 = 0 THEN <<"W", idDigits[i + 1]>> ELSE <<idDigits[i + 1]>>

rowToken(i) == IF i % 2 = 0 THEN <<idDigits[i + 1]>> ELSE <<"w", idDigits[i + 1]>>

Number(v) == [t |-> "number", v |-> v]

Rows(i) ==
  {[siteId |-> rowSiteId(i), lat |-> Number(lat), lng |-> Number(0), category |-> cat] :
     lat \in Coords,
     cat \in {Some(" Hospital"), IF i % 2 = 0 THEN Some("Street ") ELSE Null}}

SiteTables ==
  UNION {{t \in [0..(n - 1) -> UNION {Rows(i) : i \in 0..(n - 1)}] :
            \A i \in 0..(n - 1) : t[i] \in Rows(i)} : n \in 0..MaxPoints}

RECURSIVE joinTokens(_, _)
joinTokens(n, i) ==
  IF i >= n THEN <<>>
  ELSE rowToken(n - 1 - i) \o (IF i + 1 < n THEN <<",", " ">> ELSE <<>>)
       \o joinTokens(n, i + 1)

\* The pasted texts: the tokens of all rows, last row first, or only a comma.
InputTexts(n) == {joinTokens(n, 0), <<",">>}

KValues == {[finite |-> TRUE, twice |-> t] : t \in 1..(2 * MaxK)}

plannerIdle ==
  /\ sites = EmptyArray
  /\ clusterInput = <<>>
  /\ clusterK = [finite |-> TRUE, twice |-> 2]
  /\ clusterError = Null
  /\ clusterStats = Null
  /\ clusteredSites = EmptyArray
  /\ clusterKUsed = Null
  /\ hasVipGroup = FALSE
  /\ clusterDebugRef = Null
  /\ drawn = EmptyArray
  /\ normalized = Null

engineIdle ==
  /\ points = EmptyArray
  /\ k = 0
  /\ iterations = 0
  /\ pc = "idle"
  /\ sample = EmptyArray
  /\ centroids = EmptyArray
  /\ assignments = EmptyArray
  /\ capacities = EmptyArray
  /\ iteration = 0
  /\ entry = EmptyArray

\* ============================================================ the planner
Init ==
  /\ sites \in SiteTables
  /\ clusterInput \in InputTexts(Length(sites))
  /\ clusterK \in KValues
  /\ clusterError = Null
  /\ clusterStats = Null
  /\ clusteredSites = EmptyArray
  /\ clusterKUsed = Null
  /\ hasVipGroup = FALSE
  /\ clusterDebugRef = Null
  /\ drawn = EmptyArray
  /\ normalized = Null
  /\ engineIdle

\* What handleCluster resolves from the state it is called in.
tokensNow == tokenizeSiteIds(clusterInput)

uniqueIdsNow == uniqueLoop(tokensNow, 0, EmptyArray)

resolvedNow == resolveSites(sites, uniqueIdsNow)

matchedNow == resolvedNow.matched

usedKNow == usedKOf(clusterK, matchedNow)

\* The early returns of handleCluster, lines 957-981 and 1025-1028.
clusterFails(message) ==
  /\ clusterError' = Some(message)
  /\ clusteredSites' = EmptyArray
  /\ hasVipGroup' = FALSE
  /\ UNCHANGED <<clusterDebugRef, drawn>>

\* handleCluster, lines 948-1136.  The button is disabled while the text
\* is blank.
HandleCluster ==
  /\ trim(clusterInput) # <<>>
  /\ \E tokens \in {tokensNow} :
     \E uniqueIds \in {uniqueLoop(tokens, 0, EmptyArray)} :
     \E resolved \in {resolveSites(sites, uniqueIds)} :
     \E matched \in {resolved.matched} :
     \E usedK \in {usedKOf(clusterK, matched)} :
     \E call \in {engineCall(matched, usedK)} :
        IF Length(tokens) = 0
          THEN /\ clusterFails("Paste Site IDs to cluster.")
               /\ clusterStats' = Null
               /\ clusterKUsed' = Null
        ELSE IF Length(sites) = 0
          THEN /\ clusterFails("No hajj sites loaded yet.")
               /\ clusterStats' = Null
               /\ clusterKUsed' = Null
        ELSE IF Length(uniqueIds) = 0
          THEN /\ clusterFails("No valid Site IDs found.")
               /\ clusterStats' = Null
               /\ clusterKUsed' = Null
        ELSE /\ clusterKUsed' = IF usedK = 0 THEN Null ELSE Some(usedK)
             /\ clusterStats' = Some([totalPasted |-> Length(tokens),
                                      uniqueIds |-> Length(uniqueIds),
                                      matched |-> Length(matched),
                                      notFoundIds |-> resolved.notFoundIds,
                                      missingCoordsIds |-> resolved.missingCoordsIds,
                                      usedK |-> usedK])
             /\ IF Length(matched) = 0
                  THEN clusterFails("No matching sites with coordinates.")
                  ELSE \E s \in EngineSamples(call.points, call.k) :
                         \E result \in {clusterMatched(matched, usedK, s)} :
                         \E allPoints \in {allPointsOf(matched, usedK)} :
                            /\ clusterError' = Null
                            /\ hasVipGroup' = (Length(vipSitesOf(matched)) > 0 /\ usedK > 1)
                            /\ clusterDebugRef' =
                                 Some([points |-> allPoints,
                                       centroids |-> result.centroids,
                                       assignments |-> result.assignments,
                                       indexBySiteId |-> indexBySiteIdOf(allPoints)])
                            /\ clusteredSites' = result.clustered
                            /\ drawn' = s
  /\ UNCHANGED <<sites, clusterInput, clusterK, normalized, engineVars>>

\* handleClusterClear, lines 1138-1148.
HandleClusterClear ==
  /\ clusterInput' = <<>>
  /\ clusteredSites' = EmptyArray
  /\ clusterStats' = Null
  /\ clusterError' = Null
  /\ clusterKUsed' = Null
  /\ hasVipGroup' = FALSE
  /\ clusterDebugRef' = Null
  /\ UNCHANGED <<sites, clusterK, drawn, normalized, engineVars>>

Next == HandleCluster \/ HandleClusterClear

Spec == Init /\ [][Next]_vars

\* ============================== cluster runs on any table and pasted text
\* Largest number of rows in the sites table of a resolution run.
MaxRows == 2
\* Largest number of tokens in the pasted text of a resolution run.
MaxTokens == 3

\* Ids with and without the prefix, in both cases, and with another letter.
StoredIds == {<<"W", "1">>, <<"w", "1">>, <<"1">>, <<"X", "1">>}

\* A cell parseCoordinate rejects (null, NaN, a text that is not a number).
NotANumber == [t |-> "none", v |-> 0]

\* Rows with and without a valid coordinate pair; the table may hold the
\* same row or the same id more than once.
ResolveRows ==
  [siteId : StoredIds, lat : {Number(0), NotANumber}, lng : {Number(0)},
   category : {Null}]

ResolveTables == UNION {ArraysOf(ResolveRows, n) : n \in 0..MaxRows}

\* The pasted tokens: the stored ids and one id no row has.
PastedTokens == StoredIds \cup {<<"W", "2">>}

TokenLists == UNION {ArraysOf(PastedTokens, n) : n \in 1..MaxTokens}

RECURSIVE joinWith(_, _, _)
joinWith(tokens, separator, i) ==
  IF i >= Length(tokens) THEN <<>>
  ELSE tokens[i] \o (IF i + 1 < Length(tokens) THEN separator ELSE <<>>)
       \o joinWith(tokens, separator, i + 1)

\* The tokens separated by single spaces, or by runs of separators with
\* separators before the first and after the last token.
PastedTexts ==
  {joinWith(tokens, <<" ">>, 0) : tokens \in TokenLists}
    \cup {<<",", " ">> \o joinWith(tokens, <<";", " ">>, 0) \o <<" ", ";">> :
            tokens \in TokenLists}

ResolveInit ==
  /\ sites \in ResolveTables
  /\ clusterInput \in PastedTexts
  /\ clusterK = [finite |-> TRUE, twice |-> 4]
  /\ clusterError = Null
  /\ clusterStats = Null
  /\ clusteredSites = EmptyArray
  /\ clusterKUsed = Null
  /\ hasVipGroup = FALSE
  /\ clusterDebugRef = Null
  /\ drawn = EmptyArray
  /\ normalized = Null
  /\ engineIdle

ResolveSpec == ResolveInit /\ [][Next]_vars

\* ================================================== one run of the engine
\* runBalancedClustering step by step: the position pc, the loop counter
\* iteration (of runKMeans in phase A, of the outer loop afterwards).
EngineInit ==
  /\ plannerIdle
  /\ points \in PointLists
  /\ k \in (-1)..MaxK
  /\ k >= 2 => OnGreatCircle(points)
  /\ iterations \in 0..MaxIterations
  /\ pc = "start"
  /\ sample = EmptyArray
  /\ centroids = EmptyArray
  /\ assignments = EmptyArray
  /\ capacities = EmptyArray
  /\ iteration = 0
  /\ entry = EmptyArray

\* Lines 467-475, and the entry into runKMeans (lines 477, 271-272).
EngineStart ==
  /\ pc = "start"
  /\ IF earlyResult(points, k) # Null
       THEN \E r \in earlyResult(points, k) :
              /\ pc' = "done"
              /\ assignments' = r.assignments
              /\ centroids' = r.centroids
     ELSE /\ pc' = "phaseA"
          /\ assignments' = Fill(Length(points), 0)
          /\ centroids' = EmptyArray
  /\ UNCHANGED <<points, k, iterations, sample, capacities, iteration, entry, plannerVars>>

\* The test `used.size < points.length` left out.
samplingOpenNoUsedTest == Length(sample) < k

\* Line 252: the test of the sampling loop.
samplingOpen ==
  Length(sample) < Min(k, Length(points)) /\ Length(sample) < Length(points)

\* Lines 252-257: one draw of initializeCentroids; a repeated index is
\* skipped.
DrawCentroid ==
  /\ pc = "phaseA"
  /\ samplingOpen
  /\ \E idx \in DOMAIN points :
       IF idx \in Range(sample)
         THEN UNCHANGED <<sample, centroids>>
         ELSE /\ sample' = Push(sample, idx)
              /\ centroids' = Push(centroids, latLng(points[idx]))
  /\ UNCHANGED <<points, k, iterations, pc, assignments, capacities, iteration, entry, plannerVars>>

\* Lines 274-325: one round of runKMeans; on leaving the loop, lines
\* 478-480.
KMeansRound ==
  /\ pc = "phaseA"
  /\ ~samplingOpen
  /\ iteration < KMeansRounds
  /\ \E next \in {nearestAssignments(points, centroids)} :
       /\ entry' = assignments
       /\ assignments' = next
       /\ centroids' = kmeansCentroids(points, next, k)
       /\ IF next = assignments \/ iteration + 1 >= KMeansRounds
            THEN /\ pc' = "balance"
                 /\ iteration' = 0
                 /\ capacities' = buildCapacities(Length(points), k)
            ELSE /\ iteration' = iteration + 1
                 /\ UNCHANGED <<pc, capacities>>
  /\ UNCHANGED <<points, k, iterations, sample, plannerVars>>

\* Line 483.
Balance ==
  /\ pc = "balance"
  /\ entry' = assignments
  /\ assignments' = balanceAssignments(points, centroids, assignments, capacities)
  /\ pc' = "balanced"
  /\ UNCHANGED <<points, k, iterations, sample, centroids, capacities, iteration, plannerVars>>

\* Line 484.
RecentreBalanced ==
  /\ pc = "balanced"
  /\ centroids' = recomputeCentroids(points, assignments, k, centroids)
  /\ pc' = "refine"
  /\ UNCHANGED <<points, k, iterations, sample, assignments, capacities, iteration, entry,
                 plannerVars>>

\* Line 485.
Refine ==
  /\ pc = "refine"
  /\ entry' = assignments
  /\ assignments' = refineSwaps(points, assignments, centroids)
  /\ pc' = "refined"
  /\ UNCHANGED <<points, k, iterations, sample, centroids, capacities, iteration, plannerVars>>

\* Lines 486 and 482: the second recomputation and the loop test.
RecentreRefined ==
  /\ pc = "refined"
  /\ centroids' = recomputeCentroids(points, assignments, k, centroids)
  /\ iteration' = iteration + 1
  /\ pc' = IF iteration + 1 < Max(1, iterations) THEN "balance" ELSE "done"
  /\ UNCHANGED <<points, k, iterations, sample, assignments, capacities, entry, plannerVars>>

EngineNext ==
  \/ EngineStart
  \/ DrawCentroid
  \/ KMeansRound
  \/ Balance
  \/ RecentreBalanced
  \/ Refine
  \/ RecentreRefined

EngineSpec == EngineInit /\ [][EngineNext]_vars

\* The run is one synchronous call: while a step can be taken, one is
\* taken.  A draw that repeats an index leaves the state as it is, so in
\* the sampling loop weak fairness says that Math.random eventually gives
\* an unused index.  Balance is enabled exactly when pc = "balance" and
\* every Balance step leaves that position, so WF_vars(Balance) is written
\* in its equivalent form []<>(pc # "balance").
EngineFairSpec ==
  /\ EngineSpec
  /\ WF_vars(EngineStart \/ DrawCentroid \/ KMeansRound
               \/ RecentreBalanced \/ Refine \/ RecentreRefined)
  /\ []<>(pc # "balance")

\* =============================================== the phases on any input
\* Largest number of centroids handed to a phase.
MaxGroups == 2

MeridianPoints == [lat : Coords, lng : {0}]

PhaseInit ==
  /\ plannerIdle
  /\ points \in UNION {ArraysOf(MeridianPoints, n) : n \in 1..MaxPoints}
  /\ centroids \in UNION {ArraysOf(MeridianPoints, n) : n \in 1..MaxGroups}
  /\ k = Length(centroids)
  /\ iterations = 0
  \* group k has no centroid
  /\ assignments \in ArraysOf(0..k, Length(points))
  /\ pc = "input"
  /\ sample = EmptyArray
  /\ capacities = EmptyArray
  /\ iteration = 0
  /\ entry = EmptyArray

ApplyBalance ==
  /\ pc = "input"
  /\ \E caps \in {buildCapacities(Length(points), k), Fill(k, 0), Fill(k, 1)} :
       /\ capacities' = caps
       /\ assignments' = balanceAssignments(points, centroids, assignments, caps)
  /\ entry' = assignments
  /\ pc' = "balanced"
  /\ UNCHANGED <<points, k, iterations, sample, centroids, iteration, plannerVars>>

ApplyRefine ==
  /\ pc = "input"
  /\ assignments' = refineSwaps(points, assignments, centroids)
  /\ entry' = assignments
  /\ pc' = "refined"
  /\ UNCHANGED <<points, k, iterations, sample, centroids, capacities, iteration, plannerVars>>

PhaseNext == ApplyBalance \/ ApplyRefine

PhaseSpec == PhaseInit /\ [][PhaseNext]_vars

\* ========================================= functions applied on their own
\* Longest text handed to normalizeSiteId.
MaxLen == 3
\* Largest point count handed to buildCapacities.
MaxTotal == 6

Alphabet == {"W", "w", "X", "x", "1", " "}

Texts == UNION {[1..n -> Alphabet] : n \in 0..MaxLen}

\* `String(value ?? "")` of a value that may be null.
textOf(value) == IF value = Null THEN <<>> ELSE CHOOSE v \in value : TRUE

\* Every kind of number handleCluster can be handed as clusterK: the
\* finite ones in halves (negative, zero, below 1 and fractional ones
\* included), and the three that are not finite, written with twice = 1
\* for +Infinity, -1 for -Infinity and 0 for NaN.
RequestedK ==
  {[finite |-> TRUE, twice |-> t] : t \in (-2)..(2 * MaxK + 1)}
    \cup {[finite |-> FALSE, twice |-> t] : t \in {-1, 0, 1}}

FunctionInit ==
  /\ sites = EmptyArray
  /\ clusterError = Null
  /\ clusterStats = Null
  /\ clusteredSites = EmptyArray
  /\ clusterKUsed = Null
  /\ hasVipGroup = FALSE
  /\ clusterDebugRef = Null
  /\ drawn = EmptyArray
  /\ normalized = Null
  /\ \/ /\ pc = "value"
        /\ clusterInput \in Texts
        /\ points = EmptyArray
        /\ k = 0
     \/ /\ pc = "total"
        /\ clusterInput = <<>>
        /\ points \in {Fill(total, [lat |-> 0, lng |-> 0]) : total \in 0..MaxTotal}
        /\ k \in 1..MaxK
     \/ /\ pc = "requested"
        /\ clusterInput = <<>>
        /\ points \in {Fill(total, [lat |-> 0, lng |-> 0]) : total \in 0..MaxTotal}
        /\ k = 0
  /\ clusterK \in (IF pc = "requested" THEN RequestedK
                   ELSE {[finite |-> TRUE, twice |-> 2]})
  /\ iterations = 0
  /\ sample = EmptyArray
  /\ centroids = EmptyArray
  /\ assignments = EmptyArray
  /\ capacities = EmptyArray
  /\ iteration = 0
  /\ entry = EmptyArray

\* normalizeSiteId(value).
ApplyNormalizeSiteId ==
  /\ pc = "value"
  /\ normalized' = normalizeSiteId(clusterInput)
  /\ pc' = "normalized"
  /\ UNCHANGED <<sites, clusterInput, clusterK, clusterError, clusterStats, clusteredSites,
                 clusterKUsed, hasVipGroup, clusterDebugRef, drawn>>
  /\ UNCHANGED <<points, k, iterations, sample, centroids, assignments, capacities,
                 iteration, entry>>

\* normalizeSiteId applied to what it returned.
ApplyNormalizeSiteIdAgain ==
  /\ pc = "normalized"
  /\ normalized' = normalizeSiteId(textOf(normalized))
  /\ pc' = "renormalized"
  /\ UNCHANGED <<sites, clusterInput, clusterK, clusterError, clusterStats, clusteredSites,
                 clusterKUsed, hasVipGroup, clusterDebugRef, drawn>>
  /\ UNCHANGED <<points, k, iterations, sample, centroids, assignments, capacities,
                 iteration, entry>>

\* buildCapacities(points.length, k), as on line 478.
ApplyBuildCapacities ==
  /\ pc = "total"
  /\ capacities' = buildCapacities(Length(points), k)
  /\ pc' = "capacities"
  /\ UNCHANGED <<points, k, iterations, sample, centroids, assignments, iteration, entry,
                 plannerVars>>

\* Lines 1012-1028 of handleCluster, with points as the matched list: the
\* used group count (kept in k), and the return before any clustering when
\* nothing is matched.
ApplyUsedK ==
  /\ pc = "requested"
  /\ \E usedK \in {usedKOf(clusterK, points)} :
       /\ k' = usedK
       /\ clusterKUsed' = IF usedK = 0 THEN Null ELSE Some(usedK)
  /\ IF Length(points) = 0
       THEN /\ clusterError' = Some("No matching sites with coordinates.")
            /\ pc' = "returned"
       ELSE /\ clusterError' = clusterError
            /\ pc' = "clustering"
  /\ UNCHANGED <<sites, clusterInput, clusterK, clusterStats, clusteredSites,
                 hasVipGroup, clusterDebugRef, drawn, normalized>>
  /\ UNCHANGED <<points, iterations, sample, centroids, assignments, capacities,
                 iteration, entry>>

FunctionNext ==
  \/ ApplyNormalizeSiteId
  \/ ApplyNormalizeSiteIdAgain
  \/ ApplyBuildCapacities
  \/ ApplyUsedK

FunctionSpec == FunctionInit /\ [][FunctionNext]_vars

\* The step-by-step run returns what runBalancedClustering computes.
EngineAgrees ==
  pc = "done" =>
    [assignments |-> assignments, centroids |-> centroids]
      = runBalancedClustering(points, k, iterations, sample)

\* ================================================================ claims
groupSize(a, g) == Cardinality(members(a, g))

ceilDiv(n, d) == (n + d - 1) \div d

\* ---- claims about one engine run (EngineSpec)

\* C1: runBalancedClustering returns one entry per input point, in the
\* points' positions, and every entry is a group index g with
\* 0 <= g < max(K, 1), for every K and every iteration count.
C1_EveryPointOneGroup ==
  pc = "done" =>
    /\ DOMAIN assignments = DOMAIN points
    /\ \A i \in DOMAIN points : assignments[i] \in 0..(Max(k, 1) - 1)

C1_Witness ==
  /\ pc = "done"
  /\ Length(points) >= 3
  /\ k >= 2
  /\ Cardinality(Range(assignments)) >= 2

\* C2: in an engine run with K >= 2 and N >= 1, after balanceAssignments
\* group g holds exactly capacities[g] points, which is floor(N/K) or
\* ceil(N/K), whatever phase A assigned.
C2_ExactCapacities ==
  (pc = "balanced" /\ k >= 2 /\ Length(points) >= 1) =>
    /\ DOMAIN capacities = 0..(k - 1)
    /\ \A g \in 0..(k - 1) :
         /\ groupSize(assignments, g) = capacities[g]
         /\ groupSize(assignments, g)
              \in {Length(points) \div k, ceilDiv(Length(points), k)}
    /\ \A i \in DOMAIN points : assignments[i] \in 0..(k - 1)

C2_Witness ==
  /\ pc = "balanced"
  /\ k >= 2
  /\ assignments # entry
  /\ \E g \in 0..(k - 1) : groupSize(entry, g) > capacities[g]

\* C8: with N >= 1 points and K <= 1 the engine puts every point in group
\* 0 and returns one centroid, the arithmetic mean of the latitudes and of
\* the longitudes.
C8_SingleGroupMean ==
  (pc = "done" /\ Length(points) >= 1 /\ k <= 1) =>
    /\ assignments = Fill(Length(points), 0)
    /\ DOMAIN centroids = {0}
    /\ centroids[0].lat * Length(points)
         = SumOver([i \in DOMAIN points |-> points[i].lat], DOMAIN points)
    /\ centroids[0].lng * Length(points)
         = SumOver([i \in DOMAIN points |-> points[i].lng], DOMAIN points)

C8_Witness ==
  /\ pc = "done"
  /\ k <= 0
  /\ Length(points) >= 3
  /\ \E i, j \in DOMAIN points :
       points[i].lat # points[j].lat /\ points[i].lng # points[j].lng
  /\ centroids[0] # latLng(points[0])

\* C9: on an empty point list the engine returns an empty assignment list
\* and an empty centroid list for every K, and never enters a phase (which
\* would read points[0]).
C9_EmptyInput ==
  Length(points) = 0 =>
    /\ pc \in {"idle", "start", "done"}
    /\ pc = "done" => (assignments = EmptyArray /\ centroids = EmptyArray)

C9_Witness == pc = "done" /\ Length(points) = 0 /\ k >= 2

\* ---- claims about the phases on any input (PhaseSpec)

\* C3: refineSwaps returns an assignment in which every group has as many
\* points as on entry, for every assignment and every centroid list.
C3_RefineKeepsSizes ==
  pc = "refined" =>
    /\ DOMAIN assignments = DOMAIN entry
    /\ \A g \in 0..k : groupSize(assignments, g) = groupSize(entry, g)

C3_Witness ==
  /\ pc = "refined"
  /\ assignments # entry
  \* two scans swapped and a third found nothing to swap
  /\ refineLoop(points, centroids, entry, TRUE, 0).iter >= 3

\* ---- claims about a cluster run of the planner (Spec)
statsNow == CHOOSE st \in clusterStats : TRUE

debugNow == CHOOSE ref \in clusterDebugRef : TRUE

clusterRan == clusteredSites # EmptyArray

sizeOfGroup(g) ==
  Cardinality({i \in DOMAIN clusteredSites : clusteredSites[i].clusterIndex = g})

isReserved(point) == isHighlightedLocationCategory(point.row.category)

reservedPresent == \E i \in DOMAIN clusteredSites : isReserved(clusteredSites[i].point)

normalPresent == \E i \in DOMAIN clusteredSites : ~isReserved(clusteredSites[i].point)

\* size is within ceil(n/K) of n/K.
withinEvenSplit(size, n, K) == Abs(size * K - n) <= K * ceilDiv(n, K)

\* C4 as stated: after every cluster run, with K requested groups and N
\* resolved points, every group's size is within ceil(N/K) of N/K, also in
\* runs that split off a reserved group.
C4_AllGroupsNearEvenSplit ==
  clusterRan =>
    \A g \in 0..(desiredKOf(clusterK) - 1) :
      withinEvenSplit(sizeOfGroup(g), statsNow.matched, desiredKOf(clusterK))

\* C4 amended: every group's size is within ceil(N/K) of N/K, except the
\* reserved group 0 of a run that splits off a reserved group; no point is
\* in a group outside 0..K-1.
C4_GroupsNearEvenSplitButReserved ==
  clusterRan =>
    /\ \A i \in DOMAIN clusteredSites :
         clusteredSites[i].clusterIndex \in 0..(desiredKOf(clusterK) - 1)
    /\ \A g \in 0..(desiredKOf(clusterK) - 1) :
         \/ g = 0 /\ hasVipGroup
         \/ withinEvenSplit(sizeOfGroup(g), statsNow.matched, desiredKOf(clusterK))

C4_Witness ==
  /\ clusterRan
  /\ hasVipGroup
  /\ ~withinEvenSplit(sizeOfGroup(0), statsNow.matched, desiredKOf(clusterK))
  /\ sizeOfGroup(1) >= 1

\* C5: when a reserved point exists and more than one group is used, every
\* reserved point is in group 0 and every other point is in group
\* 1 + (its group from clustering the other points into K-1 groups), which
\* lies in 1..K-1.
C5_ReservedGroupZero ==
  (clusterRan /\ reservedPresent /\ statsNow.usedK > 1) =>
    LET normalSites == normalSitesOf(matchedNow)
        normalResult == runBalancedClustering(normalSites, statsNow.usedK - 1,
                                              Iterations, drawn)
    IN /\ \A i \in DOMAIN matchedNow :
            \E e \in DOMAIN clusteredSites : clusteredSites[e].point = matchedNow[i]
       /\ \A e \in DOMAIN clusteredSites :
            IF isReserved(clusteredSites[e].point)
              THEN clusteredSites[e].clusterIndex = 0
              ELSE /\ clusteredSites[e].clusterIndex \in 1..(statsNow.usedK - 1)
                   /\ \E j \in DOMAIN normalSites :
                        /\ normalSites[j] = clusteredSites[e].point
                        /\ clusteredSites[e].clusterIndex
                             = normalResult.assignments[j] + 1

C5_Witness ==
  /\ clusterRan
  /\ reservedPresent
  /\ statsNow.usedK >= 3
  /\ sizeOfGroup(1) >= 1
  /\ sizeOfGroup(2) >= 1

\* C6 as stated: the assignment list of a cluster run is in the order of
\* the resolved points: entry i is the group of the i-th resolved point,
\* also when a reserved group is split off.
C6_AssignmentsInInputOrder ==
  (clusterRan /\ clusterDebugRef # Null) =>
    /\ DOMAIN debugNow.assignments = DOMAIN matchedNow
    /\ \A i \in DOMAIN matchedNow :
         \E e \in DOMAIN clusteredSites :
           /\ clusteredSites[e].point = matchedNow[i]
           /\ clusteredSites[e].clusterIndex = debugNow.assignments[i]

\* C10: when reserved and other points are resolved and one group is
\* requested, every resolved point is in group 0.
C10_OneGroupWithReserved ==
  (clusterRan /\ reservedPresent /\ normalPresent /\ desiredKOf(clusterK) = 1) =>
    /\ Length(clusteredSites) = statsNow.matched
    /\ \A e \in DOMAIN clusteredSites : clusteredSites[e].clusterIndex = 0
    /\ debugNow.assignments = Fill(statsNow.matched, 0)
    /\ ~hasVipGroup

C10_Witness ==
  /\ clusterRan
  /\ reservedPresent
  /\ normalPresent
  /\ desiredKOf(clusterK) = 1
  /\ Length(clusteredSites) >= 3

\* ---- claims about functions applied on their own (FunctionSpec)

\* C11: for K >= 1 buildCapacities(N, K) returns K non-negative integers
\* whose sum is N; the first N mod K of them are floor(N/K) + 1 and the
\* others floor(N/K).
C11_CapacitiesEvenSplit ==
  pc = "capacities" =>
    /\ DOMAIN capacities = 0..(k - 1)
    /\ \A g \in DOMAIN capacities : capacities[g] \in Nat
    /\ SumOver(capacities, DOMAIN capacities) = Length(points)
    /\ \A g \in DOMAIN capacities :
         capacities[g] = IF g < Length(points) % k
                           THEN (Length(points) \div k) + 1
                           ELSE Length(points) \div k

C11_Witness ==
  /\ pc = "capacities"
  /\ Length(points) \div k >= 1
  /\ Length(points) % k >= 2
  /\ capacities[0] > capacities[k - 1]

Letters ==
  {"A", "B", "C", "D", "E", "F", "G", "H", "I", "J", "K", "L", "M",
   "N", "O", "P", "Q", "R", "S", "T", "U", "V", "W", "X", "Y", "Z",
   "a", "b", "c", "d", "e", "f", "g", "h", "i", "j", "k", "l", "m",
   "n", "o", "p", "q", "r", "s", "t", "u", "v", "w", "x", "y", "z"}

isDigits(s) == s # <<>> /\ \A i \in 1..Len(s) : s[i] \in Digits

\* A prefix character from `prefixes` followed only by digits.
isPrefixed(s, prefixes) == Len(s) >= 2 /\ s[1] \in prefixes /\ isDigits(Tail(s))

\* C13 as stated: normalizing a token strips one leading letter, of any
\* letter and either case, when only digits follow it, and returns every
\* other token trimmed and otherwise unchanged.
C13_StripsAnyLetterPrefix ==
  (pc = "normalized" /\ trim(clusterInput) # <<>>) =>
    normalized = IF isPrefixed(trim(clusterInput), Letters)
                   THEN Some(Tail(trim(clusterInput)))
                   ELSE Some(trim(clusterInput))

\* C13 amended: normalizing a token strips one leading W or w when only
\* digits follow it, and returns every other token, one with another
\* leading letter included, trimmed and otherwise unchanged.
C13_StripsWPrefix ==
  (pc = "normalized" /\ trim(clusterInput) # <<>>) =>
    normalized = IF isPrefixed(trim(clusterInput), {"W", "w"})
                   THEN Some(Tail(trim(clusterInput)))
                   ELSE Some(trim(clusterInput))

C13_Witness ==
  /\ pc = "normalized"
  /\ clusterInput = <<"x", "1", " ">>
  /\ normalized = Some(<<"x", "1">>)

\* C14: normalizing what normalizeSiteId returned returns it again; W+d,
\* w+d and d all normalize to d for every digit string d, so a digit-only
\* identifier is returned unchanged.
C14_NormalizeIdempotent ==
  /\ [](pc = "normalized" =>
          /\ isDigits(clusterInput) => normalized = Some(clusterInput)
          /\ isPrefixed(clusterInput, {"W", "w"}) =>
                normalized = Some(Tail(clusterInput)))
  /\ [][pc = "normalized" => normalized' = normalized]_vars

C14_Witness ==
  /\ pc = "renormalized"
  /\ clusterInput = <<"W", "1", "1">>
  /\ normalized = Some(<<"1", "1">>)

\* ---- claims about resolving pasted ids (ResolveSpec)
\* handleCluster has run on the pasted text (every run that shows no groups
\* shows an error).
handled == clusterError # Null \/ clusterStats # Null

\* No row of the table is filed under id.
unknownId(id) ==
  \A i \in DOMAIN sites :
    id \notin Some(trim(sites[i].siteId)) \cup normalizeSiteId(trim(sites[i].siteId))

\* C12 as stated: a cluster run on any non-empty text against an empty
\* sites table yields no points and a report whose notFoundIds are the
\* normalized unique tokens of the text, in input order.
C12_EmptyTableReportsNotFound ==
  (handled /\ Length(sites) = 0) =>
    /\ clusteredSites = EmptyArray
    /\ clusterStats # Null
    /\ statsNow.notFoundIds = uniqueIdsNow

\* C12 amended: a cluster run on a text with at least one token against an
\* empty sites table yields no points, no report and the error "No hajj
\* sites loaded yet."; against a table in which no row matches any token
\* it yields no points and a report whose notFoundIds are the normalized
\* unique tokens of the text, in input order.
C12_NotFoundNeedsATable ==
  /\ (handled /\ Length(sites) = 0 /\ Length(tokensNow) > 0) =>
       /\ clusteredSites = EmptyArray
       /\ clusterStats = Null
       /\ clusterError = Some("No hajj sites loaded yet.")
  /\ (handled /\ Length(sites) > 0
         /\ \A u \in DOMAIN uniqueIdsNow : unknownId(uniqueIdsNow[u])) =>
       /\ clusteredSites = EmptyArray
       /\ clusterStats # Null
       /\ statsNow.matched = 0
       /\ statsNow.notFoundIds = uniqueIdsNow

C12_Witness ==
  /\ Length(sites) = 0
  /\ clusterError = Some("No hajj sites loaded yet.")
  /\ Length(tokensNow) >= 2
  /\ uniqueIdsNow = Fill(1, <<"1">>)

\* The raw id of row i of the table.
rawIdOf(i) == trim(sites[i].siteId)

\* Row i is filed under id.
hits(id, i) == id \in Some(rawIdOf(i)) \cup normalizeSiteId(rawIdOf(i))

\* Row i is filed under a unique id of the pasted text.
queried(i) == \E u \in DOMAIN uniqueIdsNow : hits(uniqueIdsNow[u], i)

hasCoordinates(i) == sites[i].lat.t = "number" /\ sites[i].lng.t = "number"

\* The raw ids of the points emitted.
pointIds == {clusteredSites[e].point.siteId : e \in DOMAIN clusteredSites}

occurrences(a, x) == Cardinality({i \in DOMAIN a : a[i] = x})

\* The three outcomes of a unique id.
inNotFound(id) == id \in Range(statsNow.notFoundIds)

inMissingCoords(id) ==
  \E i \in DOMAIN sites : hits(id, i) /\ rawIdOf(i) \in Range(statsNow.missingCoordsIds)

isEmitted(id) == \E i \in DOMAIN sites : hits(id, i) /\ rawIdOf(i) \in pointIds

\* C15 as stated: every normalized unique token is recorded under exactly
\* one of three outcomes: the not-found list, the missing-coordinates list,
\* or an emitted point.
C15_ExactlyOneOutcomePerToken ==
  clusterStats # Null =>
    \A u \in DOMAIN uniqueIdsNow :
      LET id == uniqueIdsNow[u] IN
      \/ inNotFound(id) /\ ~inMissingCoords(id) /\ ~isEmitted(id)
      \/ ~inNotFound(id) /\ inMissingCoords(id) /\ ~isEmitted(id)
      \/ ~inNotFound(id) /\ ~inMissingCoords(id) /\ isEmitted(id)

\* C15 amended: a normalized unique token that no row matches is in the
\* not-found list once and has no other outcome; any other token is not in
\* the not-found list and each row it matches has its own outcome: skipped
\* when its raw id is already emitted, else in the missing-coordinates list
\* when it lacks a valid coordinate pair, else emitted as a point.  So each
\* token has at least one outcome, and may have both a missing-coordinates
\* entry and a point.
C15_OneOutcomePerMatchingRow ==
  clusterStats # Null =>
    /\ \A u \in DOMAIN uniqueIdsNow :
         LET id == uniqueIdsNow[u] IN
         IF unknownId(id)
           THEN /\ occurrences(statsNow.notFoundIds, id) = 1
                /\ ~inMissingCoords(id)
                /\ ~isEmitted(id)
           ELSE /\ ~inNotFound(id)
                /\ inMissingCoords(id) \/ isEmitted(id)
    /\ Range(statsNow.notFoundIds) \subseteq Range(uniqueIdsNow)
    /\ pointIds = {rawIdOf(i) : i \in {j \in DOMAIN sites : queried(j) /\ hasCoordinates(j)}}
    /\ \A i \in DOMAIN sites :
         occurrences(statsNow.missingCoordsIds, rawIdOf(i))
           = Cardinality({j \in DOMAIN sites :
               /\ rawIdOf(j) = rawIdOf(i)
               /\ queried(j)
               /\ ~hasCoordinates(j)
               /\ \A h \in DOMAIN sites :
                    (h < j /\ rawIdOf(h) = rawIdOf(j)) => ~hasCoordinates(h)})
    /\ \A x \in Range(statsNow.missingCoordsIds) : \E i \in DOMAIN sites : rawIdOf(i) = x

C15_Witness ==
  /\ clusterStats # Null
  /\ Length(uniqueIdsNow) = 1
  /\ inMissingCoords(uniqueIdsNow[0])
  /\ isEmitted(uniqueIdsNow[0])
  /\ rawIdOf(0) # rawIdOf(1)

\* The maximal separator-free runs of the pasted text, as <<first, last>>.
tokenRuns ==
  {r \in (1..Len(clusterInput)) \X (1..Len(clusterInput)) :
     /\ r[1] <= r[2]
     /\ \A i \in r[1]..r[2] : clusterInput[i] \notin Separators
     /\ r[1] = 1 \/ clusterInput[r[1] - 1] \in Separators
     /\ r[2] = Len(clusterInput) \/ clusterInput[r[2] + 1] \in Separators}

\* The distinct normalized tokens of the pasted text.
normalizedTokens ==
  UNION {normalizeSiteId(SubSeq(clusterInput, r[1], r[2])) : r \in tokenRuns}

\* C16: in every report totalPasted is the number of separator-delimited
\* non-empty tokens of the text, uniqueIds the number of distinct normalized
\* tokens and matched the number of points emitted; tokens that normalize
\* to one key give one unique id and, against a table of one matching row
\* with coordinates, one point.
C16_ReportCountsExact ==
  clusterStats # Null =>
    /\ statsNow.totalPasted = Cardinality(tokenRuns)
    /\ statsNow.uniqueIds = Cardinality(normalizedTokens)
    /\ statsNow.matched = Length(clusteredSites)
    /\ (/\ Cardinality(normalizedTokens) = 1
        /\ Length(sites) = 1
        /\ hasCoordinates(0)
        /\ normalizedTokens \subseteq Some(rawIdOf(0)) \cup normalizeSiteId(rawIdOf(0))) =>
         (statsNow.uniqueIds = 1 /\ statsNow.matched = 1 /\ Length(clusteredSites) = 1)

C16_Witness ==
  /\ clusterStats # Null
  /\ clusterInput = <<"W", "1", " ", "1", " ", "W", "1">>
  /\ Length(sites) = 1
  /\ rawIdOf(0) = <<"W", "1">>
  /\ statsNow.totalPasted = 3
  /\ statsNow.uniqueIds = 1
  /\ statsNow.matched = 1
  /\ Length(clusteredSites) = 1

\* The digit string d of a text d, "W" + d or "w" + d; none for other texts.
digitKey(x) ==
  IF isDigits(x) THEN Some(x)
  ELSE IF isPrefixed(x, {"W", "w"}) THEN Some(Tail(x))
  ELSE Null

\* C17: for every digit string d, a pasted token d, "W" + d or "w" + d
\* finds every row whose stored id is d, "W" + d or "w" + d: the row is
\* among the rows looked up for the token, its id is reported as a point or
\* as missing coordinates, and as a point when the row has coordinates.
C17_MatchWithOrWithoutPrefix ==
  clusterStats # Null =>
    \A r \in tokenRuns : \A i \in DOMAIN sites :
      LET token == SubSeq(clusterInput, r[1], r[2]) IN
      (digitKey(token) # Null /\ digitKey(token) = digitKey(rawIdOf(i))) =>
        /\ \A id \in normalizeSiteId(token) : sites[i] \in Range(siteIndex(sites, id))
        /\ rawIdOf(i) \in pointIds \cup Range(statsNow.missingCoordsIds)
        /\ hasCoordinates(i) => rawIdOf(i) \in pointIds
        /\ \A id \in normalizeSiteId(token) : ~inNotFound(id)

C17_Witness ==
  /\ clusterStats # Null
  /\ clusterInput = <<"1">>
  /\ Length(sites) = 2
  /\ rawIdOf(0) = <<"w", "1">>
  /\ rawIdOf(1) = <<"W", "1">>
  /\ pointIds = {<<"w", "1">>, <<"W", "1">>}

\* C18: no two points emitted by a cluster run carry the same raw id, also
\* when the table holds several rows with that id.
C18_NoTwoPointsWithOneId ==
  /\ \A e, f \in DOMAIN clusteredSites :
       e # f => clusteredSites[e].point.siteId # clusteredSites[f].point.siteId
  /\ clusterDebugRef # Null =>
       \A e, f \in DOMAIN debugNow.points :
         e # f => debugNow.points[e].siteId # debugNow.points[f].siteId

C18_Witness ==
  /\ clusterRan
  /\ Length(sites) = 2
  /\ rawIdOf(0) = rawIdOf(1)
  /\ hasCoordinates(0)
  /\ hasCoordinates(1)
  /\ Length(clusteredSites) = 1
  /\ Length(tokensNow) = 3

\* The tokens of the pasted text: where each starts and what it normalizes to.
seenTokens ==
  {[at |-> r[1], id |-> normalizeSiteId(SubSeq(clusterInput, r[1], r[2]))] :
     r \in tokenRuns}

\* The position in the text of the first of the tokens seen that normalizes
\* to id.
firstSeen(seen, id) ==
  CHOOSE p \in {t.at : t \in {x \in seen : x.id = Some(id)}} :
    \A t \in seen : t.id = Some(id) => p <= t.at

\* C19: the unique ids a cluster run resolves are the normalized tokens of
\* the text, each once, in the order in which each is first seen: a
\* precedes b exactly when the first token normalizing to a comes before
\* the first token normalizing to b.
C19_UniqueIdsFirstSeenOrder ==
  clusterStats # Null =>
    \A seen \in {seenTokens} : \A uniqueIds \in {uniqueIdsNow} :
      /\ Range(uniqueIds) = UNION {t.id : t \in seen}
      /\ statsNow.uniqueIds = Length(uniqueIds)
      /\ \A a, b \in DOMAIN uniqueIds :
           /\ a # b => uniqueIds[a] # uniqueIds[b]
           /\ a < b <=> firstSeen(seen, uniqueIds[a]) < firstSeen(seen, uniqueIds[b])

C19_Witness ==
  /\ clusterStats # Null
  /\ clusterInput = <<"W", "1", " ", "X", "1", " ", "1">>
  /\ uniqueIdsNow = Push(Fill(1, <<"1">>), <<"X", "1">>)

\* ---- claims about the termination of an engine run (EngineFairSpec)

\* C20: every engine run ends with a group for every point: the sampling
\* loop ends, phase A stays in its loop only after a round that changed a
\* group and for at most KMeansRounds rounds, phase C makes at most
\* MaxSwapScans scans, and the outer loop makes max(1, iterations) passes.
C20_RunTerminates ==
  /\ <>(pc = "done")
  /\ [](pc = "done" => DOMAIN assignments = DOMAIN points)
  /\ [](pc = "phaseA" => iteration < KMeansRounds)
  /\ [][(pc = "phaseA" /\ ~samplingOpen /\ pc' = "phaseA") =>
          (assignments' # assignments /\ iteration' = iteration + 1)]_vars
  /\ [][(pc = "phaseA" /\ pc' = "balance") =>
          (assignments' = assignments \/ iteration + 1 >= KMeansRounds)]_vars
  /\ [](pc = "refined" =>
          refineLoop(points, centroids, entry, TRUE, 0).iter \in 1..MaxSwapScans)
  /\ [](pc \in {"balance", "balanced", "refine", "refined"} =>
          iteration < Max(1, iterations))
  /\ []((pc = "done" /\ k >= 2 /\ Length(points) >= 1) =>
          iteration = Max(1, iterations))

C20_Witness ==
  /\ pc = "done"
  /\ Length(points) >= 2
  /\ k > Length(points)
  /\ iterations >= 2
  /\ Length(sample) = Length(points)

\* ---- claims about Phase B (balanceAssignments)

\* The place of point i among the points of its incoming group.
rankInGroup(i) ==
  Cardinality({j \in DOMAIN entry : j < i /\ entry[j] = entry[i]})

\* The points beyond their incoming group's capacity, in input order.
overflowPoints ==
  {i \in DOMAIN entry :
     entry[i] \notin DOMAIN capacities \/ rankInGroup(i) >= capacities[entry[i]]}

\* The size of group g when overflow point i is taken: the points admitted
\* to g and the overflow points before i that were given g.
countAt(i, g) ==
  Cardinality({j \in DOMAIN entry :
                 \/ j \notin overflowPoints /\ entry[j] = g
                 \/ j \in overflowPoints /\ j < i /\ assignments[j] = g})

underCapacityAt(i) ==
  {g \in DOMAIN capacities : countAt(i, g) < capacities[g]}

\* C21: in an engine run, whenever Phase B takes an overflow point some
\* group is strictly under its capacity (the fallback that leaves the point
\* in its full group is never taken), and no group leaves Phase B above its
\* capacity.
C21_NoFallbackInEngineRun ==
  pc = "balanced" =>
    /\ \A i \in overflowPoints :
         /\ underCapacityAt(i) # {}
         /\ assignments[i] \in underCapacityAt(i)
    /\ \A g \in DOMAIN capacities : groupSize(assignments, g) <= capacities[g]

C21_Witness ==
  /\ pc = "balanced"
  /\ k >= 3
  /\ Cardinality(overflowPoints) >= 2
  /\ \E i \in overflowPoints : Cardinality(underCapacityAt(i)) = 1

\* C22: Phase B gives each overflow point, in input order, the group at
\* the smallest point-to-centroid distance among the groups under capacity
\* at that moment, the lowest index among groups at equal distance.
C22_OverflowToNearestFreeGroup ==
  pc = "balanced" =>
    \A i \in overflowPoints : \A free \in {underCapacityAt(i)} :
      free # {} =>
        /\ assignments[i] \in free
        /\ \A e \in free :
             \/ haversineKm(points[i], centroids[assignments[i]])
                  < haversineKm(points[i], centroids[e])
             \/ /\ haversineKm(points[i], centroids[assignments[i]])
                     = haversineKm(points[i], centroids[e])
                /\ assignments[i] <= e

C22_Witness ==
  /\ pc = "balanced"
  /\ \E i \in overflowPoints : \E e \in underCapacityAt(i) :
       /\ e < assignments[i]
       /\ haversineKm(points[i], centroids[assignments[i]])
            < haversineKm(points[i], centroids[e])
  /\ \E i \in overflowPoints : \E e \in underCapacityAt(i) :
       /\ e > assignments[i]
       /\ haversineKm(points[i], centroids[assignments[i]])
            = haversineKm(points[i], centroids[e])

\* C23: Phase B moves overflow points only: for every group g the first
\* capacities[g] points, in input order, that come in assigned to g leave
\* assigned to g, whatever assignment, centroids and capacities it is given.
C23_OnlyOverflowPointsMove ==
  pc = "balanced" =>
    /\ DOMAIN assignments = DOMAIN entry
    /\ \A i \in DOMAIN entry :
         i \notin overflowPoints => assignments[i] = entry[i]

C23_Witness ==
  /\ pc = "balanced"
  /\ \E i, j \in DOMAIN entry :
       /\ i < j
       /\ entry[i] = entry[j]
       /\ assignments[i] = entry[i]
       /\ assignments[j] # entry[j]
       /\ capacities[entry[i]] = 1

\* ---- claims about Phase C (refineSwaps)

\* The sum of the distances from the points to their groups' centroids; a
\* point whose group has no centroid is never touched and is left out.
totalCost(a) ==
  SumOver([i \in DOMAIN points |->
             IF a[i] \in DOMAIN centroids
               THEN haversineKm(points[i], centroids[a[i]]) ELSE 0],
          DOMAIN points)

\* C24: every swap of refineSwaps strictly lowers the total of the
\* point-to-assigned-centroid distances (centroids fixed during the
\* phase), so the total on return is never above the total on entry.
C24_SwapsLowerTotalCost ==
  pc = "refined" =>
    \A swaps \in {swapsLoop(points, centroids, TRUE, 0, Fill(1, entry))} :
      /\ swaps[Length(swaps) - 1] = assignments
      /\ \A s \in 1..(Length(swaps) - 1) :
           totalCost(swaps[s]) < totalCost(swaps[s - 1])
      /\ totalCost(assignments) <= totalCost(entry)
      /\ assignments # entry => totalCost(assignments) < totalCost(entry)

C24_Witness ==
  /\ pc = "refined"
  /\ Length(swapsLoop(points, centroids, TRUE, 0, Fill(1, entry))) >= 3
  /\ totalCost(assignments) < totalCost(entry)
  /\ totalCost(assignments) > 0

\* Whether exchanging the groups of points i and j would strictly lower
\* the sum of their two distances.
swapGains(a, i, j) ==
  /\ a[i] # a[j]
  /\ a[i] \in DOMAIN centroids
  /\ a[j] \in DOMAIN centroids
  /\ haversineKm(points[i], centroids[a[j]]) + haversineKm(points[j], centroids[a[i]])
       < haversineKm(points[i], centroids[a[i]]) + haversineKm(points[j], centroids[a[j]])

\* C25: refineSwaps makes at most 50 scans, and when it returns after
\* fewer than 50 the assignment returned is a swap-local optimum: no two
\* points in different groups can exchange groups and strictly lower the
\* sum of their distances to their groups' centroids.
C25_ReturnsSwapLocalOptimum ==
  pc = "refined" =>
    \A run \in {refineLoop(points, centroids, entry, TRUE, 0)} :
      /\ run.assignments = assignments
      /\ run.iter \in 1..MaxSwapScans
      /\ run.iter < MaxSwapScans =>
           \A i, j \in DOMAIN points : ~swapGains(assignments, i, j)

C25_Witness ==
  /\ pc = "refined"
  /\ refineLoop(points, centroids, entry, TRUE, 0).iter = 2
  /\ \E i, j \in DOMAIN points : swapGains(entry, i, j)
  /\ \E i, j \in DOMAIN points :
       /\ assignments[i] # assignments[j]
       /\ assignments[i] \in DOMAIN centroids
       /\ assignments[j] \in DOMAIN centroids

\* ---- claims about the centroids of an engine run (EngineSpec)

\* Whether c is the coordinate-wise mean of the points that a puts in g.
isMeanOfGroup(c, a, g) ==
  /\ c.lat * groupSize(a, g)
       = SumOver([i \in DOMAIN points |-> points[i].lat], members(a, g))
  /\ c.lng * groupSize(a, g)
       = SumOver([i \in DOMAIN points |-> points[i].lng], members(a, g))

\* C26: every recomputation of the centroids, in Phase A and in the outer
\* loop, leaves one centroid for each of the K groups: the mean of its
\* members for a group that has members, and for an empty group the point
\* at index (group index mod N) in Phase A, the group's previous centroid
\* in the outer loop.
C26_EveryGroupHasACentroid ==
  [][/\ (pc = "phaseA" /\ ~samplingOpen) =>
          /\ DOMAIN centroids' = 0..(k - 1)
          /\ \A g \in 0..(k - 1) :
               IF members(assignments', g) # {}
                 THEN isMeanOfGroup(centroids'[g], assignments', g)
                 ELSE centroids'[g] = latLng(points[g % Length(points)])
     /\ pc \in {"balanced", "refined"} =>
          /\ DOMAIN centroids' = 0..(k - 1)
          /\ \A g \in 0..(k - 1) :
               IF members(assignments', g) # {}
                 THEN isMeanOfGroup(centroids'[g], assignments', g)
                 ELSE g \in DOMAIN centroids /\ centroids'[g] = centroids[g]
    ]_vars

C26_Witness ==
  /\ pc = "balance"
  /\ \E g \in 1..(k - 1) :
       /\ groupSize(assignments, g) = 0
       /\ centroids[g] = latLng(points[g % Length(points)])
       /\ centroids[g] # latLng(points[0])
  /\ \E g \in 0..(k - 1) :
       /\ groupSize(assignments, g) >= 2
       /\ \A i \in DOMAIN points : centroids[g] # latLng(points[i])

\* The group whose centroid is nearest to point i, the lowest index first.
nearestGroup(i) == nearestLoop(points[i], centroids, 0, 0, Infinity)

\* C27: in every outer iteration after the first, balanceAssignments
\* returns the assignment it is given: the group sizes already equal the
\* capacities, so balancing against the new centroids moves no point.
C27_LaterBalancingMovesNothing ==
  (pc = "balanced" /\ iteration >= 1) =>
    /\ assignments = entry
    /\ \A g \in DOMAIN capacities : groupSize(entry, g) = capacities[g]

C27_Witness ==
  /\ pc = "balanced"
  /\ iteration = 1
  /\ \E i \in DOMAIN points : nearestGroup(i) # assignments[i]
  /\ \E g, h \in DOMAIN capacities : capacities[g] # capacities[h]

\* ---- claims about the group count of a cluster run (Spec)

\* C28: after a successful cluster run the number of centroids equals the
\* reported used group count usedK, and every assignment value is the
\* index of one of the centroids, also when every resolved point is
\* reserved.
C28_CentroidsMatchUsedK ==
  clusterRan =>
    /\ Length(debugNow.centroids) = statsNow.usedK
    /\ clusterKUsed = Some(Length(debugNow.centroids))
    /\ \A i \in DOMAIN debugNow.assignments :
         debugNow.assignments[i] \in DOMAIN debugNow.centroids

\* ---- claims about the used group count (FunctionSpec)

\* Whether u is min(max(1, floor(K)), n) for the requested K: for a K that
\* is not finite, max(1, +Infinity) is +Infinity and min(+Infinity, n) is
\* n, max(1, -Infinity) is 1, and no number is equal to NaN.
isMinMaxFloor(u, K, n) ==
  IF K.finite THEN u = Min(Max(1, K.twice \div 2), n)
  ELSE IF K.twice > 0 THEN u = n
  ELSE IF K.twice < 0 THEN u = Min(1, n)
  ELSE FALSE

C30_EmptyGroupOnlyWhenKAboveN ==
  pc = "done" =>
    /\ (2 <= k /\ k <= Length(points)) =>
         /\ DOMAIN centroids = 0..(k - 1)
         /\ \A g \in 0..(k - 1) : groupSize(assignments, g) >= 1
    /\ (\E g \in DOMAIN centroids : groupSize(assignments, g) = 0) =>
         k > Length(points)

\* Three points at one place and three groups: Phase A puts them all in
\* group 0.
C30_Witness ==
  /\ pc = "done"
  /\ k = 3
  /\ Length(points) = 3
  /\ \A i \in DOMAIN points : points[i] = points[0]
  /\ \A g \in 0..2 : groupSize(assignments, g) = 1

\* A cluster run of the planner that called the engine for the points
\* that are not reserved with more groups than points.
plannerCalledEngineWithKAboveN ==
  /\ clusterRan
  /\ hasVipGroup
  /\ normalPresent
  /\ Cardinality({i \in DOMAIN clusteredSites : ~isReserved(clusteredSites[i].point)})
       < statsNow.usedK - 1
  /\ \E g \in DOMAIN debugNow.centroids : groupSize(debugNow.assignments, g) = 0

====
